---- MODULE Spec2Model ----
(***************************************************************************)
(* waydo: a pointer-driven radial menu (src/main.rs).                      *)
(*                                                                         *)
(* The model covers the navigation state (struct State), the static menu   *)
(* tree, the ring layout and hit-test, the three GTK handlers (motion,     *)
(* click released, the 16 ms toggle pump), the socket listener thread that *)
(* feeds the pump through an mpsc channel, and run_action with its         *)
(* one-shot 80 ms timer for screenshot commands.  Every handler runs to    *)
(* completion on the GTK main loop, so each is one action; a handler that  *)
(* returns without doing anything is a stuttering step.  A message sent    *)
(* while the pump is draining is seen by that run or by the next, which    *)
(* is the same as arriving before or after it.                             *)
(*                                                                         *)
(* Coordinates are whole pixels.  Ring positions are kept in 1/Scale pixel *)
(* (cos and sin come from a 1e-6 fixed-point table).  The source computes  *)
(* them in f64, where two entries that are mirror images of each other in  *)
(* exact arithmetic are not exact mirror images: a pointer on a symmetry   *)
(* axis of the ring is resolved by rounding error, and which entry wins    *)
(* depends on the libm and on the centre.  ring_layout therefore takes one *)
(* more input, fav, the entry the rounding favours, chosen freely by the   *)
(* click action; it only matters when two entries are exactly tied.        *)
(*                                                                         *)
(* State.px / State.py are written by the motion handler when it anchors   *)
(* and are read nowhere in the program; they are not carried.  The colour  *)
(* of an item and draw_ui only paint.  The window follows st.visible       *)
(* (win.hide in hide_menu, win.present in show_menu).                      *)
(*                                                                         *)
(* The functions that keep no state (current_items, ring_layout,           *)
(* closest_index_for_pointer, run_niri_action, run_ydotool_combo) are also *)
(* called on their own, on arguments the handlers never pass: SpecWalk,    *)
(* SpecRing, SpecHit, SpecDispatch and SpecCombo draw the arguments, apply *)
(* the function once and keep the result in probe.  Strings that are       *)
(* split or matched are sequences of characters.                           *)
(***************************************************************************)
EXTENDS Integers, Sequences, FiniteSets, TLC

----------------------------------------------------------------------------
(* Bounds of the exploration *)

\* pointer events arrive on a lattice of Step pixels, (0..GridW) x (0..GridH)
Step == 17
GridW == 2
GridH == 4
\* messages the mpsc channel may hold before the pump drains it
MaxQueue == 2
\* one-shot screenshot timers that may be armed at once
MaxPending == 1
\* paths handed to current_items on its own: up to MaxPathLen indices, each
\* in 0..MaxIndex
MaxPathLen == 3
MaxIndex == 8
\* closest_index_for_pointer on its own: the pointer on a lattice of HitStep
\* pixels, (0..HitGrid) x (0..HitGrid), and up to MaxPoints points
HitStep == 10
HitGrid == 4
MaxPoints == 3
\* run_niri_action on its own: commands of up to MaxWords words
MaxWords == 2
\* run_ydotool_combo on its own: chords of up to MaxMods modifiers
MaxMods == 2
\* ring_layout on its own: centers on a lattice of RingStep pixels,
\* (0..RingGrid) x (0..RingGrid)
RingStep == 17
RingGrid == 4

XS == { Step * k : k \in 0..GridW }
YS == { Step * k : k \in 0..GridH }

----------------------------------------------------------------------------
(* Constants of the program *)

CENTER_RADIUS == 18
ITEM_RING_DISTANCE == 86
ITEM_RADIUS == 35

\* ring positions are held in 1/Scale pixel
Scale == 100

\* Option<T>
None == << >>
Some(v) == << v >>

----------------------------------------------------------------------------
(* The menu tree *)

\* APP_MENU (main.rs:66-107)
APP_MENU ==
    << [label |-> "Neovide", kind |-> "Action", action |-> [cmd |-> "spawn -- fish -c ~/.local/bin/neovide-focus", close_on_click |-> TRUE]],
       [label |-> "Zen Browser", kind |-> "Action", action |-> [cmd |-> "spawn -- flatpak run app.zen_browser.zen", close_on_click |-> TRUE]],
       [label |-> "Files", kind |-> "Action", action |-> [cmd |-> "spawn -- nautilus", close_on_click |-> TRUE]],
       [label |-> "Zotero", kind |-> "Action", action |-> [cmd |-> "spawn -- flatpak run org.zotero.Zotero", close_on_click |-> TRUE]],
       [label |-> "Btop", kind |-> "Action", action |-> [cmd |-> "spawn -- alacritty --title 'Btop' -e btop", close_on_click |-> TRUE]] >>

\* ACTION_MENU (main.rs:109-158)
ACTION_MENU ==
    << [label |-> "App >", kind |-> "Submenu", items |-> APP_MENU, on_click |-> None],
       [label |-> "Fullscreen", kind |-> "Action", action |-> [cmd |-> "fullscreen-window", close_on_click |-> FALSE]],
       [label |-> "Maximize", kind |-> "Action", action |-> [cmd |-> "maximize-window-to-edges", close_on_click |-> FALSE]],
       [label |-> "Toggle Float", kind |-> "Action", action |-> [cmd |-> "toggle-window-floating", close_on_click |-> FALSE]],
       [label |-> "Close", kind |-> "Action", action |-> [cmd |-> "close-window", close_on_click |-> TRUE]],
       [label |-> "Screenshot", kind |-> "Action", action |-> [cmd |-> "screenshot -p false", close_on_click |-> TRUE]] >>

\* MOVEMENT_MENU (main.rs:160-193)
MOVEMENT_MENU ==
    << [label |-> "Up", kind |-> "Action", action |-> [cmd |-> "move-window-to-workspace-up", close_on_click |-> FALSE]],
       [label |-> "Right", kind |-> "Action", action |-> [cmd |-> "swap-window-right", close_on_click |-> FALSE]],
       [label |-> "Down", kind |-> "Action", action |-> [cmd |-> "move-window-to-workspace-down", close_on_click |-> FALSE]],
       [label |-> "Left", kind |-> "Action", action |-> [cmd |-> "swap-window-left", close_on_click |-> FALSE]] >>

\* FOCUS_MENU (main.rs:195-260)
FOCUS_MENU ==
    << [label |-> "Up", kind |-> "Action", action |-> [cmd |-> "focus-workspace-up", close_on_click |-> FALSE]],
       [label |-> "Switch", kind |-> "Action", action |-> [cmd |-> "switch-focus-between-floating-and-tiling", close_on_click |-> FALSE]],
       [label |-> "Right", kind |-> "Action", action |-> [cmd |-> "focus-column-right", close_on_click |-> FALSE]],
       [label |-> "Move >", kind |-> "Submenu", items |-> MOVEMENT_MENU, on_click |-> None],
       [label |-> "Down", kind |-> "Action", action |-> [cmd |-> "focus-workspace-down", close_on_click |-> FALSE]],
       [label |-> "Move >", kind |-> "Submenu", items |-> MOVEMENT_MENU, on_click |-> None],
       [label |-> "Left", kind |-> "Action", action |-> [cmd |-> "focus-column-left", close_on_click |-> FALSE]],
       [label |-> "Switch", kind |-> "Action", action |-> [cmd |-> "switch-focus-between-floating-and-tiling", close_on_click |-> FALSE]] >>

\* MISC_MENU (main.rs:262-327)
MISC_MENU ==
    << [label |-> "Page Up", kind |-> "Action", action |-> [cmd |-> "key-pageup", close_on_click |-> FALSE]],
       [label |-> "Undo", kind |-> "Action", action |-> [cmd |-> "key-ctrl-z", close_on_click |-> FALSE]],
       [label |-> "Redo", kind |-> "Action", action |-> [cmd |-> "key-ctrl-shift-z", close_on_click |-> FALSE]],
       [label |-> "Delete", kind |-> "Action", action |-> [cmd |-> "key-delete", close_on_click |-> TRUE]],
       [label |-> "Page Down", kind |-> "Action", action |-> [cmd |-> "key-pagedown", close_on_click |-> FALSE]],
       [label |-> "Copy", kind |-> "Action", action |-> [cmd |-> "key-ctrl-c", close_on_click |-> TRUE]],
       [label |-> "Paste", kind |-> "Action", action |-> [cmd |-> "key-ctrl-v", close_on_click |-> TRUE]],
       [label |-> "Duplicate", kind |-> "Action", action |-> [cmd |-> "key-ctrl-d", close_on_click |-> TRUE]] >>

\* BRUSH_MENU (main.rs:329-395)
BRUSH_MENU ==
    << [label |-> "Blue", kind |-> "Action", action |-> [cmd |-> "key-ctrl-f5", close_on_click |-> TRUE]],
       [label |-> "Green", kind |-> "Action", action |-> [cmd |-> "key-ctrl-f6", close_on_click |-> TRUE]],
       [label |-> "Yellow", kind |-> "Action", action |-> [cmd |-> "key-ctrl-f7", close_on_click |-> TRUE]],
       [label |-> "Orange", kind |-> "Action", action |-> [cmd |-> "key-ctrl-f8", close_on_click |-> TRUE]],
       [label |-> "Red", kind |-> "Action", action |-> [cmd |-> "key-ctrl-f9", close_on_click |-> TRUE]] >>

\* SELECTOR_MENU (main.rs:397-422)
SELECTOR_MENU ==
    << [label |-> "Polygon", kind |-> "Action", action |-> [cmd |-> "key-f1", close_on_click |-> TRUE]],
       [label |-> "Single", kind |-> "Action", action |-> [cmd |-> "key-f3", close_on_click |-> TRUE]],
       [label |-> "Intersecting", kind |-> "Action", action |-> [cmd |-> "key-f4", close_on_click |-> TRUE]] >>

\* TOOLS_MENU (main.rs:424-449)
TOOLS_MENU ==
    << [label |-> "Vertical Space", kind |-> "Action", action |-> [cmd |-> "key-f5", close_on_click |-> TRUE]],
       [label |-> "Zoom", kind |-> "Action", action |-> [cmd |-> "key-f7", close_on_click |-> TRUE]],
       [label |-> "Laser", kind |-> "Action", action |-> [cmd |-> "key-f8", close_on_click |-> TRUE]] >>

\* ROOT_MENU (main.rs:451-509)
ROOT_MENU ==
    << [label |-> "Action >", kind |-> "Submenu", items |-> ACTION_MENU, on_click |-> None],
       [label |-> "Workspace >", kind |-> "Submenu", items |-> FOCUS_MENU, on_click |-> None],
       [label |-> "Tools >", kind |-> "Submenu", items |-> TOOLS_MENU, on_click |-> Some([cmd |-> "key-ctrl-6 f6", close_on_click |-> FALSE])],
       [label |-> "Selector >", kind |-> "Submenu", items |-> SELECTOR_MENU, on_click |-> Some([cmd |-> "key-ctrl-5 f2", close_on_click |-> FALSE])],
       [label |-> "Brush >", kind |-> "Submenu", items |-> BRUSH_MENU, on_click |-> Some([cmd |-> "key-ctrl-1 ctrl-f1", close_on_click |-> FALSE])],
       [label |-> "Misc >", kind |-> "Submenu", items |-> MISC_MENU, on_click |-> None] >>

----------------------------------------------------------------------------
(* Command strings, character by character *)

CmdChars ==
    ("spawn -- fish -c ~/.local/bin/neovide-focus" :> << "s", "p", "a", "w", "n", " ", "-", "-", " ", "f", "i", "s", "h", " ", "-", "c", " ", "~", "/", ".", "l", "o", "c", "a", "l", "/", "b", "i", "n", "/", "n", "e", "o", "v", "i", "d", "e", "-", "f", "o", "c", "u", "s" >>)
    @@ ("spawn -- flatpak run app.zen_browser.zen" :> << "s", "p", "a", "w", "n", " ", "-", "-", " ", "f", "l", "a", "t", "p", "a", "k", " ", "r", "u", "n", " ", "a", "p", "p", ".", "z", "e", "n", "_", "b", "r", "o", "w", "s", "e", "r", ".", "z", "e", "n" >>)
    @@ ("spawn -- nautilus" :> << "s", "p", "a", "w", "n", " ", "-", "-", " ", "n", "a", "u", "t", "i", "l", "u", "s" >>)
    @@ ("spawn -- flatpak run org.zotero.Zotero" :> << "s", "p", "a", "w", "n", " ", "-", "-", " ", "f", "l", "a", "t", "p", "a", "k", " ", "r", "u", "n", " ", "o", "r", "g", ".", "z", "o", "t", "e", "r", "o", ".", "Z", "o", "t", "e", "r", "o" >>)
    @@ ("spawn -- alacritty --title 'Btop' -e btop" :> << "s", "p", "a", "w", "n", " ", "-", "-", " ", "a", "l", "a", "c", "r", "i", "t", "t", "y", " ", "-", "-", "t", "i", "t", "l", "e", " ", "'", "B", "t", "o", "p", "'", " ", "-", "e", " ", "b", "t", "o", "p" >>)
    @@ ("fullscreen-window" :> << "f", "u", "l", "l", "s", "c", "r", "e", "e", "n", "-", "w", "i", "n", "d", "o", "w" >>)
    @@ ("maximize-window-to-edges" :> << "m", "a", "x", "i", "m", "i", "z", "e", "-", "w", "i", "n", "d", "o", "w", "-", "t", "o", "-", "e", "d", "g", "e", "s" >>)
    @@ ("toggle-window-floating" :> << "t", "o", "g", "g", "l", "e", "-", "w", "i", "n", "d", "o", "w", "-", "f", "l", "o", "a", "t", "i", "n", "g" >>)
    @@ ("close-window" :> << "c", "l", "o", "s", "e", "-", "w", "i", "n", "d", "o", "w" >>)
    @@ ("screenshot -p false" :> << "s", "c", "r", "e", "e", "n", "s", "h", "o", "t", " ", "-", "p", " ", "f", "a", "l", "s", "e" >>)
    @@ ("move-window-to-workspace-up" :> << "m", "o", "v", "e", "-", "w", "i", "n", "d", "o", "w", "-", "t", "o", "-", "w", "o", "r", "k", "s", "p", "a", "c", "e", "-", "u", "p" >>)
    @@ ("swap-window-right" :> << "s", "w", "a", "p", "-", "w", "i", "n", "d", "o", "w", "-", "r", "i", "g", "h", "t" >>)
    @@ ("move-window-to-workspace-down" :> << "m", "o", "v", "e", "-", "w", "i", "n", "d", "o", "w", "-", "t", "o", "-", "w", "o", "r", "k", "s", "p", "a", "c", "e", "-", "d", "o", "w", "n" >>)
    @@ ("swap-window-left" :> << "s", "w", "a", "p", "-", "w", "i", "n", "d", "o", "w", "-", "l", "e", "f", "t" >>)
    @@ ("focus-workspace-up" :> << "f", "o", "c", "u", "s", "-", "w", "o", "r", "k", "s", "p", "a", "c", "e", "-", "u", "p" >>)
    @@ ("switch-focus-between-floating-and-tiling" :> << "s", "w", "i", "t", "c", "h", "-", "f", "o", "c", "u", "s", "-", "b", "e", "t", "w", "e", "e", "n", "-", "f", "l", "o", "a", "t", "i", "n", "g", "-", "a", "n", "d", "-", "t", "i", "l", "i", "n", "g" >>)
    @@ ("focus-column-right" :> << "f", "o", "c", "u", "s", "-", "c", "o", "l", "u", "m", "n", "-", "r", "i", "g", "h", "t" >>)
    @@ ("focus-workspace-down" :> << "f", "o", "c", "u", "s", "-", "w", "o", "r", "k", "s", "p", "a", "c", "e", "-", "d", "o", "w", "n" >>)
    @@ ("focus-column-left" :> << "f", "o", "c", "u", "s", "-", "c", "o", "l", "u", "m", "n", "-", "l", "e", "f", "t" >>)
    @@ ("key-pageup" :> << "k", "e", "y", "-", "p", "a", "g", "e", "u", "p" >>)
    @@ ("key-ctrl-z" :> << "k", "e", "y", "-", "c", "t", "r", "l", "-", "z" >>)
    @@ ("key-ctrl-shift-z" :> << "k", "e", "y", "-", "c", "t", "r", "l", "-", "s", "h", "i", "f", "t", "-", "z" >>)
    @@ ("key-delete" :> << "k", "e", "y", "-", "d", "e", "l", "e", "t", "e" >>)
    @@ ("key-pagedown" :> << "k", "e", "y", "-", "p", "a", "g", "e", "d", "o", "w", "n" >>)
    @@ ("key-ctrl-c" :> << "k", "e", "y", "-", "c", "t", "r", "l", "-", "c" >>)
    @@ ("key-ctrl-v" :> << "k", "e", "y", "-", "c", "t", "r", "l", "-", "v" >>)
    @@ ("key-ctrl-d" :> << "k", "e", "y", "-", "c", "t", "r", "l", "-", "d" >>)
    @@ ("key-ctrl-f5" :> << "k", "e", "y", "-", "c", "t", "r", "l", "-", "f", "5" >>)
    @@ ("key-ctrl-f6" :> << "k", "e", "y", "-", "c", "t", "r", "l", "-", "f", "6" >>)
    @@ ("key-ctrl-f7" :> << "k", "e", "y", "-", "c", "t", "r", "l", "-", "f", "7" >>)
    @@ ("key-ctrl-f8" :> << "k", "e", "y", "-", "c", "t", "r", "l", "-", "f", "8" >>)
    @@ ("key-ctrl-f9" :> << "k", "e", "y", "-", "c", "t", "r", "l", "-", "f", "9" >>)
    @@ ("key-f1" :> << "k", "e", "y", "-", "f", "1" >>)
    @@ ("key-f3" :> << "k", "e", "y", "-", "f", "3" >>)
    @@ ("key-f4" :> << "k", "e", "y", "-", "f", "4" >>)
    @@ ("key-f5" :> << "k", "e", "y", "-", "f", "5" >>)
    @@ ("key-f7" :> << "k", "e", "y", "-", "f", "7" >>)
    @@ ("key-f8" :> << "k", "e", "y", "-", "f", "8" >>)
    @@ ("key-ctrl-6 f6" :> << "k", "e", "y", "-", "c", "t", "r", "l", "-", "6", " ", "f", "6" >>)
    @@ ("key-ctrl-5 f2" :> << "k", "e", "y", "-", "c", "t", "r", "l", "-", "5", " ", "f", "2" >>)
    @@ ("key-ctrl-1 ctrl-f1" :> << "k", "e", "y", "-", "c", "t", "r", "l", "-", "1", " ", "c", "t", "r", "l", "-", "f", "1" >>)

\* str::starts_with
starts_with(s, prefix) ==
    /\ Len(prefix) <= Len(s)
    /\ SubSeq(s, 1, Len(prefix)) = prefix

SCREENSHOT == << "s", "c", "r", "e", "e", "n", "s", "h", "o", "t" >>

----------------------------------------------------------------------------
(* Dispatch: strings are sequences of characters *)

WHITESPACE == { " ", "\n", "\t", "\r" }

\* key_token_to_evdev: the arms of the match, token :> code
KEY_CODES ==
    (<< "c", "t", "r", "l" >> :> 29)
    @@ (<< "s", "h", "i", "f", "t" >> :> 42)
    @@ (<< "a", "l", "t" >> :> 56)
    @@ (<< "m", "e", "t", "a" >> :> 125)
    @@ (<< "s", "u", "p", "e", "r" >> :> 125)
    @@ (<< "1" >> :> 2)
    @@ (<< "2" >> :> 3)
    @@ (<< "3" >> :> 4)
    @@ (<< "4" >> :> 5)
    @@ (<< "5" >> :> 6)
    @@ (<< "6" >> :> 7)
    @@ (<< "7" >> :> 8)
    @@ (<< "8" >> :> 9)
    @@ (<< "9" >> :> 10)
    @@ (<< "0" >> :> 11)
    @@ (<< "f", "1" >> :> 59)
    @@ (<< "f", "2" >> :> 60)
    @@ (<< "f", "3" >> :> 61)
    @@ (<< "f", "4" >> :> 62)
    @@ (<< "f", "5" >> :> 63)
    @@ (<< "f", "6" >> :> 64)
    @@ (<< "f", "7" >> :> 65)
    @@ (<< "f", "8" >> :> 66)
    @@ (<< "f", "9" >> :> 67)
    @@ (<< "f", "1", "0" >> :> 68)
    @@ (<< "f", "1", "1" >> :> 87)
    @@ (<< "f", "1", "2" >> :> 88)
    @@ (<< "a" >> :> 30)
    @@ (<< "b" >> :> 48)
    @@ (<< "c" >> :> 46)
    @@ (<< "d" >> :> 32)
    @@ (<< "e" >> :> 18)
    @@ (<< "f" >> :> 33)
    @@ (<< "g" >> :> 34)
    @@ (<< "h" >> :> 35)
    @@ (<< "i" >> :> 23)
    @@ (<< "j" >> :> 36)
    @@ (<< "k" >> :> 37)
    @@ (<< "l" >> :> 38)
    @@ (<< "m" >> :> 50)
    @@ (<< "n" >> :> 49)
    @@ (<< "o" >> :> 24)
    @@ (<< "p" >> :> 25)
    @@ (<< "q" >> :> 16)
    @@ (<< "r" >> :> 19)
    @@ (<< "s" >> :> 31)
    @@ (<< "t" >> :> 20)
    @@ (<< "u" >> :> 22)
    @@ (<< "v" >> :> 47)
    @@ (<< "w" >> :> 17)
    @@ (<< "x" >> :> 45)
    @@ (<< "y" >> :> 21)
    @@ (<< "z" >> :> 44)
    @@ (<< "m", "i", "n", "u", "s" >> :> 12)
    @@ (<< "e", "q", "u", "a", "l" >> :> 13)
    @@ (<< "p", "l", "u", "s" >> :> 13)
    @@ (<< "d", "e", "l", "e", "t", "e" >> :> 14)
    @@ (<< "b", "a", "c", "k", "s", "p", "a", "c", "e" >> :> 14)
    @@ (<< "p", "a", "g", "e", "u", "p" >> :> 104)
    @@ (<< "p", "a", "g", "e", "d", "o", "w", "n" >> :> 109)

key_token_to_evdev(tok) ==
    IF tok \in DOMAIN KEY_CODES THEN Some(KEY_CODES[tok]) ELSE None

\* str::split(ch): the pieces between the occurrences of ch, empty ones kept
RECURSIVE split(_, _)
split(s, ch) ==
    IF \A i \in 1..Len(s) : s[i] # ch THEN << s >>
    ELSE LET i == CHOOSE j \in 1..Len(s) : s[j] = ch /\ \A k \in 1..(j - 1) : s[k] # ch
         IN  << SubSeq(s, 1, i - 1) >> \o split(SubSeq(s, i + 1, Len(s)), ch)

\* str::split_whitespace: the runs of characters that are not whitespace
RECURSIVE split_whitespace(_)
split_whitespace(s) ==
    IF s = << >> THEN << >>
    ELSE IF Head(s) \in WHITESPACE THEN split_whitespace(Tail(s))
    ELSE LET n == CHOOSE j \in 1..Len(s) :
                      /\ \A k \in 1..j : s[k] \notin WHITESPACE
                      /\ j = Len(s) \/ s[j + 1] \in WHITESPACE
         IN  << SubSeq(s, 1, n) >> \o split_whitespace(SubSeq(s, n + 1, Len(s)))

DIGITS == << "0", "1", "2", "3", "4", "5", "6", "7", "8", "9" >>

\* Display of an unsigned integer
RECURSIVE to_string(_)
to_string(n) ==
    IF n < 10 THEN << DIGITS[n + 1] >>
    ELSE to_string(n \div 10) \o << DIGITS[(n % 10) + 1] >>

\* format!("{code}:1") and format!("{code}:0")
format_key(code, value) == to_string(code) \o << ":" >> \o to_string(value)

\* the loop of run_ydotool_combo over the modifiers: None at the first
\* unknown token, else Some of the codes
RECURSIVE mod_codes(_, _)
mod_codes(mods, codes) ==
    IF mods = << >> THEN Some(codes)
    ELSE LET code == key_token_to_evdev(Head(mods))
         IN  IF code = None THEN None
             ELSE mod_codes(Tail(mods), Append(codes, code[1]))

YDOTOOL == << "y", "d", "o", "t", "o", "o", "l" >>
NIRI == << "n", "i", "r", "i" >>
KEY == << "k", "e", "y" >>
ARG_MSG == << "m", "s", "g" >>
ARG_ACTION == << "a", "c", "t", "i", "o", "n" >>
KEY_PREFIX == << "k", "e", "y", "-" >>

\* Vec::iter().rev()
rev(v) == [ k \in 1..Len(v) |-> v[Len(v) + 1 - k] ]

\* mutation of run_ydotool_combo: the modifiers are released in the order
\* they were pressed
run_ydotool_combo_no_rev(spec) ==
    LET parts == split(spec, "-")
        mods == SubSeq(parts, 1, Len(parts) - 1)
        main_code == key_token_to_evdev(parts[Len(parts)])
        codes == mod_codes(mods, << >>)
    IN  IF main_code = None THEN << >>
        ELSE IF codes = None THEN << >>
        ELSE << [ prog |-> YDOTOOL,
                  args |-> << KEY >>
                      \o [ k \in 1..Len(codes[1]) |-> format_key(codes[1][k], 1) ]
                      \o << format_key(main_code[1], 1), format_key(main_code[1], 0) >>
                      \o [ k \in 1..Len(codes[1]) |-> format_key(codes[1][k], 0) ] ] >>

\* run_ydotool_combo: the processes it spawns, none or one
run_ydotool_combo(spec) ==
    LET parts == split(spec, "-")
        mods == SubSeq(parts, 1, Len(parts) - 1)
        main_code == key_token_to_evdev(parts[Len(parts)])
        codes == mod_codes(mods, << >>)
    IN  IF main_code = None THEN << >>
        ELSE IF codes = None THEN << >>
        ELSE << [ prog |-> YDOTOOL,
                  args |-> << KEY >>
                      \o [ k \in 1..Len(codes[1]) |-> format_key(codes[1][k], 1) ]
                      \o << format_key(main_code[1], 1), format_key(main_code[1], 0) >>
                      \o [ k \in 1..Len(codes[1]) |-> format_key(rev(codes[1])[k], 0) ] ] >>

\* run_ydotool_sequence: the calls of run_ydotool_combo, in order, each with
\* the processes it spawned
run_ydotool_sequence(spec) ==
    LET combos == split_whitespace(spec)
    IN  [ k \in 1..Len(combos) |->
            [ combo |-> combos[k], spawned |-> run_ydotool_combo(combos[k]) ] ]

\* Command::new("niri").arg("msg").arg("action") and one arg per word
niri_msg_action(action) ==
    [ prog |-> NIRI, args |-> << ARG_MSG, ARG_ACTION >> \o split_whitespace(action) ]

\* mutation of run_niri_action: no return after the key sequence
run_niri_action_falls_through(action) ==
    IF starts_with(action, KEY_PREFIX)
    THEN [ combos |-> run_ydotool_sequence(SubSeq(action, Len(KEY_PREFIX) + 1, Len(action))),
           niri |-> << niri_msg_action(action) >> ]
    ELSE [ combos |-> << >>, niri |-> << niri_msg_action(action) >> ]

\* run_niri_action: the calls of run_ydotool_combo it makes and the niri
\* processes it spawns
run_niri_action(action) ==
    IF starts_with(action, KEY_PREFIX)
    THEN [ combos |-> run_ydotool_sequence(SubSeq(action, Len(KEY_PREFIX) + 1, Len(action))),
           niri |-> << >> ]
    ELSE [ combos |-> << >>, niri |-> << niri_msg_action(action) >> ]

----------------------------------------------------------------------------
(* Geometry *)

\* cos and sin of -pi/2 + i * (2 pi / n), times 1e6, row n, column i + 1
COS_E6 ==
    << << 0 >>,
       << 0, 0 >>,
       << 0, 866025, -866025 >>,
       << 0, 1000000, 0, -1000000 >>,
       << 0, 951057, 587785, -587785, -951057 >>,
       << 0, 866025, 866025, 0, -866025, -866025 >>,
       << 0, 781831, 974928, 433884, -433884, -974928, -781831 >>,
       << 0, 707107, 1000000, 707107, 0, -707107, -1000000, -707107 >> >>

SIN_E6 ==
    << << -1000000 >>,
       << -1000000, 1000000 >>,
       << -1000000, 500000, 500000 >>,
       << -1000000, 0, 1000000, 0 >>,
       << -1000000, -309017, 809017, 809017, -309017 >>,
       << -1000000, -500000, 500000, 1000000, 500000, -500000 >>,
       << -1000000, -623490, 222521, 900969, 900969, 222521, -623490 >>,
       << -1000000, -707107, 0, 707107, 1000000, 707107, 0, -707107 >> >>

\* v / 1e4 rounded to nearest, symmetric about zero
round_e4(v) == IF v >= 0 THEN (v + 5000) \div 10000 ELSE 0 - ((5000 - v) \div 10000)

dist2(ax, ay, bx, by) ==
    LET dx == ax - bx
        dy == ay - by
    IN  dx * dx + dy * dy

\* (-FRAC_PI_2).cos() is 6.123233995736766e-17 in f64, not 0: that is
\* 0.55153 * 2^-53, here times 1e5 * 2^53
COS_TOP_E5_P53 == 55153

\* the largest power of two not above v, for v >= 1
RECURSIVE pow2_floor(_)
pow2_floor(v) == IF v < 2 THEN 1 ELSE 2 * pow2_floor(v \div 2)

\* whether the f64 sum cx + dist * (-FRAC_PI_2).cos(), the x of entry 0, is
\* cx itself, for whole cx >= 0 and dist >= 0: the product is rounded away
\* when it is below half the spacing of the f64 values at cx
top_x_is_cx(cx, dist) ==
    IF dist = 0 THEN TRUE
    ELSE IF cx = 0 THEN FALSE
    ELSE dist * COS_TOP_E5_P53 < 100000 * pow2_floor(cx)

\* mutation of ring_layout: the angle of entry i is -pi/2 - i * step
ring_layout_anticlockwise(n, cx, cy, dist, fav) ==
    IF n = 0 THEN << >>
    ELSE [ k \in 1..n |->
             [ x  |-> Scale * cx + round_e4(dist * COS_E6[n][((n + 1 - k) % n) + 1]),
               y  |-> Scale * cy + round_e4(dist * SIN_E6[n][((n + 1 - k) % n) + 1]),
               lo |-> IF k - 1 = fav THEN 0 ELSE 1 ] ]

\* ring_layout: n points in 1/Scale pixel.  lo is the rounding residue of the
\* point: 0 for the entry the f64 rounding favours, 1 for the others.
ring_layout(n, cx, cy, dist, fav) ==
    IF n = 0 THEN << >>
    ELSE [ k \in 1..n |->
             [ x  |-> Scale * cx + round_e4(dist * COS_E6[n][k]),
               y  |-> Scale * cy + round_e4(dist * SIN_E6[n][k]),
               lo |-> IF k - 1 = fav THEN 0 ELSE 1 ] ]

\* squared distance from the pointer to a layout point, residue in the low bit
point_dist2(px, py, pt) == 2 * dist2(Scale * px, Scale * py, pt.x, pt.y) + pt.lo

\* mutation of closest_scan: d <= bd in place of d < bd, the last of the nearest
\* wins
RECURSIVE closest_scan_last_wins(_, _, _, _, _)
closest_scan_last_wins(px, py, points, k, best) ==
    IF k > Len(points) THEN best
    ELSE LET d == point_dist2(px, py, points[k])
             nb == IF best = None THEN Some(<< k - 1, d >>)
                   ELSE IF d <= best[1][2] THEN Some(<< k - 1, d >>)
                   ELSE best
         IN  closest_scan_last_wins(px, py, points, k + 1, nb)

\* the loop of closest_index_for_pointer: best is None or Some(<<i, d>>)
RECURSIVE closest_scan(_, _, _, _, _)
closest_scan(px, py, points, k, best) ==
    IF k > Len(points) THEN best
    ELSE LET d == point_dist2(px, py, points[k])
             nb == IF best = None THEN Some(<< k - 1, d >>)
                   ELSE IF d < best[1][2] THEN Some(<< k - 1, d >>)
                   ELSE best
         IN  closest_scan(px, py, points, k + 1, nb)

\* mutation of closest_index_for_pointer: the squared distance is compared
\* with deadzone, not with its square
closest_index_unsquared(px, py, cx, cy, points, deadzone) ==
    IF dist2(px, py, cx, cy) < deadzone THEN None
    ELSE LET best == closest_scan(px, py, points, 1, None)
         IN  IF best = None THEN None ELSE Some(best[1][1])

\* mutation of closest_index_for_pointer: an entry is selected only when the
\* pointer is within ITEM_RADIUS of its position
closest_index_within_radius(px, py, cx, cy, points, deadzone) ==
    IF dist2(px, py, cx, cy) < deadzone * deadzone THEN None
    ELSE LET best == closest_scan(px, py, points, 1, None)
         IN  IF best = None THEN None
             ELSE IF best[1][2] > 2 * (Scale * ITEM_RADIUS) * (Scale * ITEM_RADIUS) + 1
                  THEN None
                  ELSE Some(best[1][1])

closest_index_for_pointer(px, py, cx, cy, points, deadzone) ==
    IF dist2(px, py, cx, cy) < deadzone * deadzone THEN None
    ELSE LET best == closest_scan(px, py, points, 1, None)
         IN  IF best = None THEN None ELSE Some(best[1][1])

----------------------------------------------------------------------------
(* Menu walk *)

\* mutation of walk_items: an index out of range is skipped (continue in
\* place of break)
RECURSIVE walk_items_skips(_, _)
walk_items_skips(items, path) ==
    IF path = << >> THEN items
    ELSE LET idx == Head(path)
         IN  IF idx >= Len(items) THEN walk_items_skips(items, Tail(path))
             ELSE IF items[idx + 1].kind = "Submenu"
                  THEN walk_items_skips(items[idx + 1].items, Tail(path))
                  ELSE items

RECURSIVE walk_items(_, _)
walk_items(items, path) ==
    IF path = << >> THEN items
    ELSE LET idx == Head(path)
         IN  IF idx >= Len(items) THEN items
             ELSE IF items[idx + 1].kind = "Submenu"
                  THEN walk_items(items[idx + 1].items, Tail(path))
                  ELSE items

current_items(path) == walk_items(ROOT_MENU, path)

----------------------------------------------------------------------------
(* State *)

VARIABLES
    st,        \* struct State
    chan,      \* the mpsc channel from the listener thread to the pump
    pending,   \* commands of the armed one-shot timers, oldest first
    out,       \* commands handed to run_niri_action by the last handler that
               \* did anything, each with st.visible at the moment of the call
    branch,    \* the branch that handler took
    probe      \* a call of one function on its own: the function, its
               \* arguments and, once it has returned, the result

vars == << st, chan, pending, out, branch, probe >>

\* State::default()
default_state ==
    [ anchored |-> FALSE, visible |-> FALSE,
      cx |-> 0, cy |-> 0, root_cx |-> 0, root_cy |-> 0,
      path |-> << >> ]

\* mutation of hide_menu: path.pop() in place of path.clear()
hide_menu_pops(s) ==
    [ s EXCEPT !.visible = FALSE, !.anchored = FALSE,
               !.path = SubSeq(@, 1, Len(@) - 1) ]

hide_menu(s) ==
    [ s EXCEPT !.visible = FALSE, !.anchored = FALSE, !.path = << >> ]

show_menu(s) ==
    [ s EXCEPT !.visible = TRUE, !.anchored = FALSE, !.path = << >> ]

\* mutation of run_action: close_on_click is ignored
run_action_keeps_open(action, s, pend) ==
    IF starts_with(CmdChars[action.cmd], SCREENSHOT)
    THEN [ st |-> s, out |-> << >>, pending |-> Append(pend, action.cmd) ]
    ELSE [ st |-> s,
           out |-> << [ cmd |-> action.cmd, visible |-> s.visible ] >>,
           pending |-> pend ]

\* mutation of run_action: the command runs before the menu is hidden
run_action_fires_first(action, s, pend) ==
    LET s1 == IF action.close_on_click THEN hide_menu(s) ELSE s
    IN  IF starts_with(CmdChars[action.cmd], SCREENSHOT)
        THEN [ st |-> s1, out |-> << >>, pending |-> Append(pend, action.cmd) ]
        ELSE [ st |-> s1,
               out |-> << [ cmd |-> action.cmd, visible |-> s.visible ] >>,
               pending |-> pend ]

\* run_action: the state after it, the commands run at once, the timers armed
run_action(action, s, pend) ==
    LET s1 == IF action.close_on_click THEN hide_menu(s) ELSE s
    IN  IF starts_with(CmdChars[action.cmd], SCREENSHOT)
        THEN [ st |-> s1, out |-> << >>, pending |-> Append(pend, action.cmd) ]
        ELSE [ st |-> s1,
               out |-> << [ cmd |-> action.cmd, visible |-> s1.visible ] >>,
               pending |-> pend ]

\* mutation of pump_msg: a toggle always shows
pump_msg_always_shows(s, msg) ==
    IF msg = "TOGGLE"
    THEN [ st |-> show_menu(s), branch |-> "toggle_show" ]
    ELSE [ st |-> s, branch |-> "toggle_other" ]

\* the body of the pump's loop for one received message
pump_msg(s, msg) ==
    IF msg = "TOGGLE"
    THEN IF s.visible
         THEN [ st |-> hide_menu(s), branch |-> "toggle_hide" ]
         ELSE [ st |-> show_menu(s), branch |-> "toggle_show" ]
    ELSE [ st |-> s, branch |-> "toggle_other" ]

\* mutation of pump_loop: only the most recent of the queued messages is
\* acted on
pump_loop_coalesces(s, b, msgs) ==
    IF msgs = << >> THEN [ st |-> s, branch |-> b ]
    ELSE LET r == pump_msg(s, msgs[Len(msgs)])
         IN  [ st |-> r.st,
               branch |-> IF Len(msgs) = 1 THEN r.branch ELSE r.branch \o "_again" ]

\* the while-let loop of the pump over the queued messages; b is "pump" on
\* entry, and the branch of a message that is not the first of the run is
\* marked _again
RECURSIVE pump_loop(_, _, _)
pump_loop(s, b, msgs) ==
    IF msgs = << >> THEN [ st |-> s, branch |-> b ]
    ELSE LET r == pump_msg(s, Head(msgs))
         IN  pump_loop(r.st,
                       IF b = "pump" THEN r.branch ELSE r.branch \o "_again",
                       Tail(msgs))

\* branches in which a handler returns having done nothing
RETURNED == { "motion_none", "click_hidden", "click_empty", "click_miss" }

\* mutation of motion: the test of st.anchored is missing, every move of the
\* pointer anchors again
motion_reanchors(s, x, y) ==
    IF s.visible
    THEN [ st |-> [ s EXCEPT !.anchored = TRUE, !.cx = x, !.cy = y,
                             !.root_cx = x, !.root_cy = y ],
           branch |-> "motion_anchor" ]
    ELSE [ st |-> s, branch |-> "motion_none" ]

\* motion.connect_motion
motion(s, x, y) ==
    IF s.visible /\ ~s.anchored
    THEN [ st |-> [ s EXCEPT !.anchored = TRUE, !.cx = x, !.cy = y,
                             !.root_cx = x, !.root_cy = y ],
           branch |-> "motion_anchor" ]
    ELSE [ st |-> s, branch |-> "motion_none" ]

\* what a handler leaves behind: the state, the commands it ran, the armed
\* timers and the branch it took
quiet(s, pend, b) == [ st |-> s, out |-> << >>, pending |-> pend, branch |-> b ]

\* mutation of click_anchor: no return after anchoring, the click goes on to the
\* center control
click_anchor_falls_through(s, pend, x, y) ==
    quiet(hide_menu([ s EXCEPT !.anchored = TRUE, !.cx = x, !.cy = y,
                               !.root_cx = x, !.root_cy = y ]), pend, "center_hide")

\* click.connect_released, the first click of a session
click_anchor(s, pend, x, y) ==
    quiet([ s EXCEPT !.anchored = TRUE, !.cx = x, !.cy = y,
                     !.root_cx = x, !.root_cy = y ], pend, "click_anchor")

\* mutation of click_center: the ascent leaves the center where it was
click_center_keeps_center(s, pend, x, y) ==
    IF s.path = << >>
    THEN quiet(hide_menu(s), pend, "center_hide")
    ELSE quiet([ s EXCEPT !.path = SubSeq(@, 1, Len(@) - 1) ], pend, "center_pop")

\* mutation of click_center: at Root the center control does nothing
click_center_idle_at_root(s, pend, x, y) ==
    IF s.path = << >>
    THEN quiet(s, pend, "click_miss")
    ELSE quiet([ s EXCEPT !.path = SubSeq(@, 1, Len(@) - 1),
                          !.cx = x, !.cy = y ], pend, "center_pop")

\* mutation of click_center: the ascent goes all the way back to Root
click_center_to_root(s, pend, x, y) ==
    IF s.path = << >>
    THEN quiet(hide_menu(s), pend, "center_hide")
    ELSE quiet([ s EXCEPT !.path = << >>, !.cx = x, !.cy = y ], pend, "center_pop")

\* mutation of click_center: the ascent puts the center back on the anchor
click_center_to_anchor(s, pend, x, y) ==
    IF s.path = << >>
    THEN quiet(hide_menu(s), pend, "center_hide")
    ELSE quiet([ s EXCEPT !.path = SubSeq(@, 1, Len(@) - 1),
                          !.cx = s.root_cx, !.cy = s.root_cy ], pend, "center_pop")

\* click.connect_released, a click on the center control
click_center(s, pend, x, y) ==
    IF s.path = << >>
    THEN quiet(hide_menu(s), pend, "center_hide")
    ELSE quiet([ s EXCEPT !.path = SubSeq(@, 1, Len(@) - 1),
                          !.cx = x, !.cy = y ], pend, "center_pop")

\* mutation of click_item: the descent leaves the center where it was
click_item_keeps_center(s, pend, x, y, items, idx, quick_click) ==
    LET ran(r, b) == [ st |-> r.st, out |-> r.out, pending |-> r.pending, branch |-> b ]
        descend(s2) == [ s2 EXCEPT !.path = Append(@, idx) ]
    IN  IF items[idx + 1].kind = "Action"
        THEN ran(run_action(items[idx + 1].action, s, pend), "action")
        ELSE LET on_click == items[idx + 1].on_click
             IN  IF on_click # None
                 THEN IF quick_click
                      THEN ran(run_action([ on_click[1] EXCEPT !.close_on_click = TRUE ],
                                          s, pend), "quick")
                      ELSE LET r == run_action(on_click[1], s, pend)
                           IN  [ st |-> descend(r.st), out |-> r.out,
                                 pending |-> r.pending, branch |-> "submenu" ]
                 ELSE quiet(descend(s), pend, "submenu")

\* mutation of click_item: the default action of a submenu always closes
click_item_default_closes(s, pend, x, y, items, idx, quick_click) ==
    LET ran(r, b) == [ st |-> r.st, out |-> r.out, pending |-> r.pending, branch |-> b ]
        descend(s2) == [ s2 EXCEPT !.path = Append(@, idx), !.cx = x, !.cy = y ]
    IN  IF items[idx + 1].kind = "Action"
        THEN ran(run_action(items[idx + 1].action, s, pend), "action")
        ELSE LET on_click == items[idx + 1].on_click
             IN  IF on_click # None
                 THEN IF quick_click
                      THEN ran(run_action([ on_click[1] EXCEPT !.close_on_click = TRUE ],
                                          s, pend), "quick")
                      ELSE LET r == run_action([ on_click[1] EXCEPT !.close_on_click = TRUE ],
                                               s, pend)
                           IN  [ st |-> descend(r.st), out |-> r.out,
                                 pending |-> r.pending, branch |-> "submenu" ]
                 ELSE quiet(descend(s), pend, "submenu")

\* mutation of click_item: a quick click runs the default action with its own
\* close_on_click
click_item_quick_unforced(s, pend, x, y, items, idx, quick_click) ==
    LET ran(r, b) == [ st |-> r.st, out |-> r.out, pending |-> r.pending, branch |-> b ]
        descend(s2) == [ s2 EXCEPT !.path = Append(@, idx), !.cx = x, !.cy = y ]
    IN  IF items[idx + 1].kind = "Action"
        THEN ran(run_action(items[idx + 1].action, s, pend), "action")
        ELSE LET on_click == items[idx + 1].on_click
             IN  IF on_click # None
                 THEN IF quick_click
                      THEN ran(run_action(on_click[1], s, pend), "quick")
                      ELSE LET r == run_action(on_click[1], s, pend)
                           IN  [ st |-> descend(r.st), out |-> r.out,
                                 pending |-> r.pending, branch |-> "submenu" ]
                 ELSE quiet(descend(s), pend, "submenu")

\* mutation of click_item: an Action entry is entered like a submenu after
\* its action has run
click_item_enters_action(s, pend, x, y, items, idx, quick_click) ==
    LET ran(r, b) == [ st |-> r.st, out |-> r.out, pending |-> r.pending, branch |-> b ]
        descend(s2) == [ s2 EXCEPT !.path = Append(@, idx), !.cx = x, !.cy = y ]
    IN  IF items[idx + 1].kind = "Action"
        THEN LET r == run_action(items[idx + 1].action, s, pend)
             IN  [ st |-> IF r.st.visible THEN descend(r.st) ELSE r.st,
                   out |-> r.out, pending |-> r.pending, branch |-> "action" ]
        ELSE LET on_click == items[idx + 1].on_click
             IN  IF on_click # None
                 THEN IF quick_click
                      THEN ran(run_action([ on_click[1] EXCEPT !.close_on_click = TRUE ],
                                          s, pend), "quick")
                      ELSE LET r == run_action(on_click[1], s, pend)
                           IN  [ st |-> descend(r.st), out |-> r.out,
                                 pending |-> r.pending, branch |-> "submenu" ]
                 ELSE quiet(descend(s), pend, "submenu")

\* click.connect_released, the match on the kind of the entry hit
click_item(s, pend, x, y, items, idx, quick_click) ==
    LET ran(r, b) == [ st |-> r.st, out |-> r.out, pending |-> r.pending, branch |-> b ]
        descend(s2) == [ s2 EXCEPT !.path = Append(@, idx), !.cx = x, !.cy = y ]
    IN  IF items[idx + 1].kind = "Action"
        THEN ran(run_action(items[idx + 1].action, s, pend), "action")
        ELSE LET on_click == items[idx + 1].on_click
             IN  IF on_click # None
                 THEN IF quick_click
                      THEN ran(run_action([ on_click[1] EXCEPT !.close_on_click = TRUE ],
                                          s, pend), "quick")
                      ELSE LET r == run_action(on_click[1], s, pend)
                           IN  [ st |-> descend(r.st), out |-> r.out,
                                 pending |-> r.pending, branch |-> "submenu" ]
                 ELSE quiet(descend(s), pend, "submenu")

\* click.connect_released
click_released(s, pend, x, y, fav) ==
    LET center_r == CENTER_RADIUS
        items == current_items(s.path)
        n == Len(items)
        dist == ITEM_RING_DISTANCE
        deadzone == CENTER_RADIUS
        points == ring_layout(n, s.cx, s.cy, dist, fav)
        hit == closest_index_for_pointer(x, y, s.cx, s.cy, points, deadzone)
        radius == ITEM_RADIUS
        inner_ring == dist - radius
        quick_click == dist2(x, y, s.cx, s.cy) <= inner_ring * inner_ring
    IN  IF ~s.visible THEN quiet(s, pend, "click_hidden")
        ELSE IF ~s.anchored THEN click_anchor(s, pend, x, y)
        ELSE IF dist2(x, y, s.cx, s.cy) <= center_r * center_r
        THEN click_center(s, pend, x, y)
        ELSE IF n = 0 THEN quiet(s, pend, "click_empty")
        ELSE IF hit = None \/ ~(hit[1] < n) THEN quiet(s, pend, "click_miss")
        ELSE click_item(s, pend, x, y, items, hit[1], quick_click)

----------------------------------------------------------------------------
(* The listener thread *)

RECURSIVE trim_start(_)
trim_start(s) ==
    IF s # << >> /\ Head(s) \in WHITESPACE THEN trim_start(Tail(s)) ELSE s

RECURSIVE trim_end(_)
trim_end(s) ==
    IF s # << >> /\ s[Len(s)] \in WHITESPACE
    THEN trim_end(SubSeq(s, 1, Len(s) - 1)) ELSE s

\* str::trim
trim(s) == trim_end(trim_start(s))

TOGGLE == << "T", "O", "G", "G", "L", "E" >>

\* first lines a client may send
Lines ==
    { TOGGLE \o << "\n" >>,
      TOGGLE,
      << "t", "o", "g", "g", "l", "e", "\n" >>,
      << "\n" >> }

----------------------------------------------------------------------------
(* Specification *)

Init ==
    /\ st = default_state
    /\ chan = << >>
    /\ pending = << >>
    /\ out = << >>
    /\ branch = "init"
    /\ probe = [ fn |-> "none" ]

\* thread::spawn: one accepted connection
Listen ==
    \E line \in Lines :
        /\ Len(chan) < MaxQueue
        /\ chan' = IF trim(line) = TOGGLE THEN Append(chan, "TOGGLE") ELSE chan
        /\ UNCHANGED << st, pending, out, branch, probe >>

\* glib::timeout_add_local: one run of the pump callback with messages queued
Pump ==
    /\ chan # << >>
    /\ \E r \in { pump_loop(st, "pump", chan) } :
           /\ st' = r.st
           /\ branch' = r.branch
    /\ chan' = << >>
    /\ out' = << >>
    /\ UNCHANGED << pending, probe >>

Motion ==
    \E x \in XS, y \in YS :
        \E r \in { motion(st, x, y) } :
            /\ r.branch \notin RETURNED
            /\ st' = r.st
            /\ branch' = r.branch
            /\ out' = << >>
            /\ UNCHANGED << chan, pending, probe >>

\* the entries of a layout at squared distance dmin from the pointer
at_dist2(x, y, points, dmin) ==
    { k - 1 : k \in { j \in 1..Len(points) : point_dist2(x, y, points[j]) = dmin } }

\* the entries the f64 rounding may favour with effect: those exactly tied for
\* the nearest to the pointer; n stands for none
roundings(s, x, y) ==
    LET n == Len(current_items(s.path))
        points == ring_layout(n, s.cx, s.cy, ITEM_RING_DISTANCE, n)
        tied == at_dist2(x, y, points, closest_scan(x, y, points, 1, None)[1][2])
    IN  IF ~s.visible \/ ~s.anchored \/ n = 0
           \/ dist2(x, y, s.cx, s.cy) <= CENTER_RADIUS * CENTER_RADIUS
        THEN { n }
        ELSE IF Cardinality(tied) > 1 THEN tied ELSE { n }

Click ==
    \E x \in XS, y \in YS :
        \E fav \in roundings(st, x, y) :
            \E r \in { click_released(st, pending, x, y, fav) } :
                /\ r.branch \notin RETURNED
                /\ Len(r.pending) <= MaxPending
                /\ st' = r.st
                /\ out' = r.out
                /\ pending' = r.pending
                /\ branch' = r.branch
                /\ UNCHANGED << chan, probe >>

\* glib::timeout_add_local_once: the oldest armed timer fires
TimerFire ==
    /\ pending # << >>
    /\ out' = << [ cmd |-> Head(pending), visible |-> st.visible ] >>
    /\ pending' = Tail(pending)
    /\ branch' = "timer"
    /\ UNCHANGED << st, chan, probe >>

Next ==
    \/ Listen
    \/ Pump
    \/ Motion
    \/ Click
    \/ TimerFire

Spec == Init /\ [][Next]_vars

----------------------------------------------------------------------------
(* current_items on its own *)

\* the program at rest while one function is called on its own
AtRest ==
    /\ st = default_state
    /\ chan = << >>
    /\ pending = << >>
    /\ out = << >>
    /\ branch = "init"

\* the slices a caller may pass: well formed or not
Paths == UNION { [ 1..k -> 0..MaxIndex ] : k \in 0..MaxPathLen }

InitWalk ==
    /\ AtRest
    /\ probe \in { [ fn |-> "current_items", path |-> p, ret |-> None ] : p \in Paths }

CallCurrentItems ==
    /\ probe.fn = "current_items"
    /\ probe.ret = None
    /\ probe' = [ probe EXCEPT !.ret = Some(current_items(probe.path)) ]
    /\ UNCHANGED << st, chan, pending, out, branch >>

NextWalk == CallCurrentItems

SpecWalk == InitWalk /\ [][NextWalk]_vars

----------------------------------------------------------------------------
(* closest_index_for_pointer on its own *)

HitCoords == { HitStep * k : k \in 0..HitGrid }

\* the center of the lattice
HitCenter == HitStep * (HitGrid \div 2)

\* positions a caller may pass: left, right, above and below the center of the
\* lattice, at the same distance from it, and the right one again a rounding
\* residue nearer
HitPositions ==
    LET c == Scale * HitCenter
    IN  { [ x |-> 0,     y |-> c,     lo |-> 1 ],
          [ x |-> 2 * c, y |-> c,     lo |-> 1 ],
          [ x |-> 2 * c, y |-> c,     lo |-> 0 ],
          [ x |-> c,     y |-> 0,     lo |-> 1 ],
          [ x |-> c,     y |-> 2 * c, lo |-> 1 ] }

HitLayouts == UNION { [ 1..k -> HitPositions ] : k \in 0..MaxPoints }

Deadzones == { 0, HitStep, CENTER_RADIUS }

InitHit ==
    /\ AtRest
    /\ probe \in { [ fn |-> "closest_index_for_pointer", px |-> px, py |-> py,
                      cx |-> HitCenter, cy |-> HitCenter, points |-> pts,
                      deadzone |-> dz, ret |-> << "pending" >> ] :
                        px \in HitCoords, py \in HitCoords,
                        pts \in HitLayouts, dz \in Deadzones }

CallClosestIndex ==
    /\ probe.fn = "closest_index_for_pointer"
    /\ probe.ret = << "pending" >>
    /\ probe' = [ probe EXCEPT !.ret =
                     << "returned",
                        closest_index_for_pointer(probe.px, probe.py, probe.cx,
                            probe.cy, probe.points, probe.deadzone) >> ]
    /\ UNCHANGED << st, chan, pending, out, branch >>

NextHit == CallClosestIndex

SpecHit == InitHit /\ [][NextHit]_vars

----------------------------------------------------------------------------
(* run_niri_action on its own *)

\* words a command may be made of: two chords, a flag and a plain word
DispatchWords ==
    { << "c", "t", "r", "l", "-", "z" >>, << "f", "1" >>, << "-", "-" >>,
      << "s", "p", "a", "w", "n" >> }

Separators == { << " " >>, << " ", "\t" >> }

\* k words with a separator between each two
RECURSIVE Phrases(_)
Phrases(k) ==
    IF k = 0 THEN { << >> }
    ELSE IF k = 1 THEN DispatchWords
    ELSE { b \o sep \o w : b \in Phrases(k - 1), sep \in Separators, w \in DispatchWords }

\* the commands of the menu tree, and made-up ones: with the reserved prefix,
\* with part of it, with a blank before it, or without it
Commands ==
    { CmdChars[c] : c \in DOMAIN CmdChars }
        \cup { pre \o b \o suf :
                  pre \in { << >>, KEY_PREFIX, KEY, << " " >> \o KEY_PREFIX },
                  b \in UNION { Phrases(k) : k \in 0..MaxWords },
                  suf \in { << >>, << " " >> } }

InitDispatch ==
    /\ AtRest
    /\ probe \in { [ fn |-> "run_niri_action", action |-> a, ret |-> None ] :
                      a \in Commands }

CallRunNiriAction ==
    /\ probe.fn = "run_niri_action"
    /\ probe.ret = None
    /\ probe' = [ probe EXCEPT !.ret = Some(run_niri_action(probe.action)) ]
    /\ UNCHANGED << st, chan, pending, out, branch >>

NextDispatch == CallRunNiriAction

SpecDispatch == InitDispatch /\ [][NextDispatch]_vars

----------------------------------------------------------------------------
(* run_ydotool_combo on its own *)

\* tokens a chord may be made of: two modifiers, a key, a token that is no
\* arm of key_token_to_evdev, and the empty token
ComboTokens ==
    { << "c", "t", "r", "l" >>, << "s", "h", "i", "f", "t" >>, << "z" >>,
      << "e", "s", "c" >>, << >> }

\* k tokens with a "-" between each two
RECURSIVE Chords(_)
Chords(k) ==
    IF k = 1 THEN ComboTokens
    ELSE { c \o << "-" >> \o t : c \in Chords(k - 1), t \in ComboTokens }

InitCombo ==
    /\ AtRest
    /\ probe \in { [ fn |-> "run_ydotool_combo", spec |-> c, ret |-> None ] :
                      c \in UNION { Chords(k) : k \in 1..(MaxMods + 1) } }

CallRunYdotoolCombo ==
    /\ probe.fn = "run_ydotool_combo"
    /\ probe.ret = None
    /\ probe' = [ probe EXCEPT !.ret = Some(run_ydotool_combo(probe.spec)) ]
    /\ UNCHANGED << st, chan, pending, out, branch >>

NextCombo == CallRunYdotoolCombo

SpecCombo == InitCombo /\ [][NextCombo]_vars

----------------------------------------------------------------------------
(* ring_layout on its own *)

RingCoords == { RingStep * k : k \in 0..RingGrid }

\* the numbers of entries the cos and sin tables cover
RingSizes == 0..Len(COS_E6)

\* the ring distance of the program, the inner ring and a wider one
RingDists == { ITEM_RING_DISTANCE - ITEM_RADIUS, ITEM_RING_DISTANCE, 100 }

InitRing ==
    /\ AtRest
    /\ probe \in { [ fn |-> "ring_layout", n |-> n, cx |-> cx, cy |-> cy,
                      dist |-> dist, fav |-> fav, ret |-> None ] :
                        n \in RingSizes, cx \in RingCoords, cy \in RingCoords,
                        dist \in RingDists, fav \in RingSizes }

\* the result: the points in 1/Scale pixel and, when there is an entry 0,
\* whether its f64 x is cx itself
CallRingLayout ==
    /\ probe.fn = "ring_layout"
    /\ probe.ret = None
    /\ probe' = [ probe EXCEPT !.ret =
                     Some([ points |-> ring_layout(probe.n, probe.cx, probe.cy,
                                                   probe.dist, probe.fav),
                            top_x_is_cx |-> probe.n > 0
                                              /\ top_x_is_cx(probe.cx, probe.dist) ]) ]
    /\ UNCHANGED << st, chan, pending, out, branch >>

NextRing == CallRingLayout

SpecRing == InitRing /\ [][NextRing]_vars

----------------------------------------------------------------------------
(* Shape of the state *)

TypeOK ==
    /\ st.anchored \in BOOLEAN
    /\ st.visible \in BOOLEAN
    /\ st.cx \in XS /\ st.cy \in YS
    /\ st.root_cx \in XS /\ st.root_cy \in YS
    /\ Len(chan) <= MaxQueue
    /\ Len(pending) <= MaxPending

----------------------------------------------------------------------------
(* Vocabulary of the properties *)

Points == XS \X YS

Hidden(s) == ~s.visible
AwaitingAnchor(s) == s.visible /\ ~s.anchored
AtRoot(s) == s.visible /\ s.anchored /\ s.path = << >>
InSubmenu(s) == s.visible /\ s.anchored /\ s.path # << >>
Anchored(s) == s.visible /\ s.anchored

OnCenter(s, p) ==
    dist2(p[1], p[2], s.cx, s.cy) <= CENTER_RADIUS * CENTER_RADIUS

InnerBand(s, p) ==
    dist2(p[1], p[2], s.cx, s.cy)
        <= (ITEM_RING_DISTANCE - ITEM_RADIUS) * (ITEM_RING_DISTANCE - ITEM_RADIUS)

\* the entry a click at p resolves to in an anchored state, as an Option
Resolve(s, p, fav) ==
    closest_index_for_pointer(p[1], p[2], s.cx, s.cy,
        ring_layout(Len(current_items(s.path)), s.cx, s.cy, ITEM_RING_DISTANCE, fav),
        CENTER_RADIUS)

\* entry idx of the menu the state is in
Entry(s, idx) == current_items(s.path)[idx + 1]

\* the click handler applied with the armed timers of the current state
ClickAt(s, p, fav) == click_released(s, pending, p[1], p[2], fav)

\* For every click in the current state, when anchored, that is off the
\* center control and resolves to an entry idx with Pre(p, idx): Post holds
\* of the point, the entry and what the handler leaves behind.
AllItemClicks(Pre(_, _), Post(_, _, _)) ==
    Anchored(st) =>
        \A p \in Points :
            ~OnCenter(st, p) =>
                \A fav \in roundings(st, p[1], p[2]) :
                    \A hit \in { Resolve(st, p, fav) } :
                        (hit # None /\ Pre(p, hit[1])) =>
                            \A r \in { ClickAt(st, p, fav) } : Post(p, hit[1], r)

\* the commands a handler dispatched: those it ran, then those it armed a
\* timer for
Dispatched(r) ==
    [ k \in 1..Len(r.out) |-> r.out[k].cmd ]
        \o SubSeq(r.pending, Len(pending) + 1, Len(r.pending))

IsSubmenuDescent(p, idx) ==
    /\ Entry(st, idx).kind = "Submenu"
    /\ Entry(st, idx).on_click = None \/ ~InnerBand(st, p)

----------------------------------------------------------------------------
(* C1 *)

\* P(p, q, s2) holds of every round trip from the current state: a click at
\* p that descends, then a click at q on the center control of the submenu,
\* ending in state s2
AllRoundTrips(P(_, _, _)) ==
    LET Ascents(p, idx, r) ==
            \A q \in Points :
                OnCenter(r.st, q) =>
                    \A s2 \in { ClickAt(r.st, q, 0).st } : P(p, q, s2)
    IN  AllItemClicks(IsSubmenuDescent, Ascents)

C1_OriginalPost(p, q, s2) ==
    /\ Len(s2.path) = Len(st.path)
    /\ s2.cx = st.cx
    /\ s2.cy = st.cy

\* C1 as stated: descending into a submenu and then clicking the center
\* control restores center to its value before the descent and path to its
\* length before the descent.
C1_Original == AllRoundTrips(C1_OriginalPost)

C1_AmendedPost(p, q, s2) ==
    /\ s2.path = st.path
    /\ Anchored(s2)
    /\ s2.cx = q[1]
    /\ s2.cy = q[2]
    /\ dist2(q[1], q[2], p[1], p[2]) <= CENTER_RADIUS * CENTER_RADIUS
    /\ << s2.cx, s2.cy >> # << st.cx, st.cy >>

\* C1 amended: descending into a submenu and then clicking the center control
\* restores path to its value before the descent and leaves the menu visible
\* and anchored; center is not restored: it becomes the point of the
\* ascending click, which lies within CENTER_RADIUS of the point of the
\* descending click and is never the center before the descent.
C1_RoundTrip == AllRoundTrips(C1_AmendedPost)

\* back at Root after an ascent, away from the anchor
C1_Witness ==
    /\ branch = "center_pop"
    /\ AtRoot(st)
    /\ << st.cx, st.cy >> # << st.root_cx, st.root_cy >>

----------------------------------------------------------------------------
(* C2 *)

NearAnchor(p) ==
    dist2(p[1], p[2], st.root_cx, st.root_cy) <= CENTER_RADIUS * CENTER_RADIUS

\* C2 as stated: at Root a click within the dead-zone radius of the anchor is
\* a no-op: the state is unchanged and nothing is dispatched.
C2_Original ==
    AtRoot(st) =>
        \A p \in Points :
            NearAnchor(p) =>
                \A fav \in roundings(st, p[1], p[2]) :
                    \A r \in { ClickAt(st, p, fav) } :
                        /\ r.st = st
                        /\ Dispatched(r) = << >>

\* C2 amended: at Root with the ring still centered on the anchor, a click
\* within the dead-zone radius of the anchor is taken by the center control:
\* it selects and dispatches nothing and leaves path empty and center and
\* anchor where they were, but it hides the menu instead of leaving it at Root.
C2_DeadzoneAtRoot ==
    (AtRoot(st) /\ st.cx = st.root_cx /\ st.cy = st.root_cy) =>
        \A p \in Points :
            NearAnchor(p) =>
                \A r \in { ClickAt(st, p, 0) } :
                    /\ r.st = [ st EXCEPT !.visible = FALSE, !.anchored = FALSE ]
                    /\ Hidden(r.st)
                    /\ Dispatched(r) = << >>

\* the menu was closed by a click near the anchor at Root
C2_Witness ==
    /\ branch = "center_hide"
    /\ Hidden(st)
    /\ st.cx = st.root_cx /\ st.cy = st.root_cy
    /\ out = << >>

----------------------------------------------------------------------------
(* C3 *)

\* C3: in an anchored state a click on the center control hides the menu when
\* path is empty, and otherwise removes exactly the last element of path and
\* leaves the menu visible and anchored; either way nothing is dispatched.
C3_CenterControl ==
    Anchored(st) =>
        \A p \in Points :
            OnCenter(st, p) =>
                \A r \in { ClickAt(st, p, 0) } :
                    /\ st.path = << >> => Hidden(r.st)
                    /\ st.path # << >> =>
                           /\ r.st.path = SubSeq(st.path, 1, Len(st.path) - 1)
                           /\ Anchored(r.st)
                    /\ Dispatched(r) = << >>

\* one level up from the deepest level of the tree
C3_Witness ==
    /\ branch = "center_pop"
    /\ Anchored(st)
    /\ Len(st.path) = 1
    /\ out = << >>

----------------------------------------------------------------------------
(* C4 *)

\* the layout position of entry idx in the current state, in 1/Scale pixel
EntryPosition(idx) ==
    ring_layout(Len(current_items(st.path)), st.cx, st.cy,
                ITEM_RING_DISTANCE, 0)[idx + 1]

C4_OriginalPost(p, idx, r) ==
    /\ r.st.path = Append(st.path, idx)
    /\ Scale * r.st.cx = EntryPosition(idx).x
    /\ Scale * r.st.cy = EntryPosition(idx).y

\* C4 as stated: a click that resolves to a Submenu entry idx and is not a
\* quick-activate appends idx to path and moves center to the ring-layout
\* position of the entry, not to the click point.
C4_Original == AllItemClicks(IsSubmenuDescent, C4_OriginalPost)

C4_AmendedPost(p, idx, r) ==
    /\ r.st.path = Append(st.path, idx)
    /\ st.path = << >> => r.st.path = << idx >>
    /\ r.st.cx = p[1]
    /\ r.st.cy = p[2]
    /\ Anchored(r.st)

\* C4 amended: a click that resolves to a Submenu entry idx and is not a
\* quick-activate appends idx to path (from Root, path = <<idx>>) and moves
\* center to the raw click coordinates, not to the ring-layout position of
\* the entry.
C4_Descent == AllItemClicks(IsSubmenuDescent, C4_AmendedPost)

\* inside a submenu of Root, entered by a click that dispatched nothing
C4_Witness ==
    /\ branch = "submenu"
    /\ Anchored(st)
    /\ Len(st.path) = 1
    /\ out = << >>
    /\ << st.cx, st.cy >> # << st.root_cx, st.root_cy >>

----------------------------------------------------------------------------
(* C5 *)

IsAction(p, idx) == Entry(st, idx).kind = "Action"

C5_Post(p, idx, r) ==
    LET a == Entry(st, idx).action
    IN  /\ Dispatched(r) = << a.cmd >>
        /\ SubSeq(r.pending, 1, Len(pending)) = pending
        /\ Hidden(r.st) <=> a.close_on_click
        /\ ~a.close_on_click => r.st = st

\* C5: a click that resolves to an entry of kind Action(a) dispatches the
\* command of a exactly once; the state becomes Hidden if and only if
\* a.close_on_click, and when it is false visible, anchored, path, center and
\* anchor are unchanged.
C5_ActionClick == AllItemClicks(IsAction, C5_Post)

\* an action that leaves the menu open was run from a submenu
C5_Witness ==
    /\ branch = "action"
    /\ InSubmenu(st)
    /\ Len(out) = 1
    /\ out[1].visible

----------------------------------------------------------------------------
(* C6 *)

IsQuickActivate(p, idx) ==
    /\ Entry(st, idx).kind = "Submenu"
    /\ Entry(st, idx).on_click # None
    /\ InnerBand(st, p)

C6_Post(p, idx, r) ==
    LET a == Entry(st, idx).on_click[1]
    IN  /\ Dispatched(r) = << a.cmd >>
        /\ \A k \in 1..Len(r.out) : ~r.out[k].visible
        /\ Hidden(r.st)
        /\ r.st.path = << >>
        /\ r.st = [ st EXCEPT !.visible = FALSE, !.anchored = FALSE, !.path = << >> ]

\* C6: a click that resolves to a Submenu entry with a default action and
\* lies within (ITEM_RING_DISTANCE - ITEM_RADIUS) of center dispatches the
\* default action as if close_on_click were true: the menu is hidden when
\* the command runs, nothing is pushed onto path, center does not move, and
\* the state after the click is Hidden.
C6_QuickActivate == AllItemClicks(IsQuickActivate, C6_Post)

\* a default action was quick-activated although its own flag keeps the menu
\* open
C6_Witness ==
    /\ branch = "quick"
    /\ Hidden(st)
    /\ st.path = << >>
    /\ Len(out) = 1
    /\ ~out[1].visible
    /\ out[1].cmd \in { ROOT_MENU[k].on_click[1].cmd :
                          k \in { j \in 1..Len(ROOT_MENU) :
                                    /\ ROOT_MENU[j].on_click # None
                                    /\ ~ROOT_MENU[j].on_click[1].close_on_click } }

----------------------------------------------------------------------------
(* C7 *)

\* what one toggle notification is to do to a state
Flip(s) ==
    IF Hidden(s)
    THEN [ s EXCEPT !.visible = TRUE, !.anchored = FALSE, !.path = << >> ]
    ELSE [ s EXCEPT !.visible = FALSE, !.anchored = FALSE, !.path = << >> ]

RECURSIVE Flips(_, _)
Flips(s, n) == IF n = 0 THEN s ELSE Flips(Flip(s), n - 1)

\* a step in which the pump drains the channel
Pumped == chan # << >> /\ chan' = << >>

\* C7: a toggle notification flips visibility.  Processed while Hidden it
\* gives AwaitingAnchor (visible, not anchored, path empty); processed in any
\* visible state (AwaitingAnchor, AtRoot, InSubmenu at any depth) it gives
\* Hidden; a run of the pump does this once for each notification queued.
C7_ToggleFlips ==
    [][ Pumped =>
            /\ st' = Flips(st, Len(chan))
            /\ Len(chan) = 1 =>
                   IF Hidden(st)
                   THEN AwaitingAnchor(st') /\ st'.path = << >>
                   ELSE Hidden(st') ]_vars

\* shown by a toggle, not yet anchored
C7_Witness ==
    /\ branch = "toggle_show"
    /\ AwaitingAnchor(st)
    /\ st.path = << >>
    /\ chan = << >>

----------------------------------------------------------------------------
(* C8 *)

AnchoredAt(s, p) ==
    [ s EXCEPT !.anchored = TRUE, !.cx = p[1], !.cy = p[2],
               !.root_cx = p[1], !.root_cy = p[2] ]

\* C8: in AwaitingAnchor the first pointer-move or click sets anchored and
\* anchor = center = the coordinates of the event, leaves path empty and the
\* menu visible (AtRoot); an anchoring click selects nothing, is not taken by
\* the center control and dispatches nothing.
C8_Anchoring ==
    AwaitingAnchor(st) =>
        \A p \in Points :
            /\ \A m \in { motion(st, p[1], p[2]) } :
                   /\ m.st = AnchoredAt(st, p)
                   /\ AtRoot(m.st)
            /\ \A r \in { ClickAt(st, p, 0) } :
                   /\ r.st = AnchoredAt(st, p)
                   /\ AtRoot(r.st)
                   /\ Dispatched(r) = << >>

\* anchored by a click, at Root, the ring centered on the anchor
C8_Witness ==
    /\ branch = "click_anchor"
    /\ AtRoot(st)
    /\ st.cx = st.root_cx /\ st.cy = st.root_cy
    /\ out = << >>

----------------------------------------------------------------------------
(* C9 *)

\* C9: hide is idempotent.  From any reachable state, hiding twice gives the
\* state hiding once gives: visible and anchored false, path empty, every
\* other field as it was.
C9_HideIdempotent ==
    /\ hide_menu(hide_menu(st)) = hide_menu(st)
    /\ hide_menu(st) = [ st EXCEPT !.visible = FALSE, !.anchored = FALSE,
                                   !.path = << >> ]

\* two levels down, where hide has the most to clear
C9_Witness ==
    /\ Anchored(st)
    /\ Len(st.path) = 2
    /\ hide_menu(st) # st

----------------------------------------------------------------------------
(* C10 *)

\* the action a click on entry idx at p dispatches, as an Option: the action
\* of an Action entry, the default action of a Submenu entry, with
\* close_on_click forced in the inner band
ActionOf(p, idx) ==
    LET e == Entry(st, idx)
    IN  IF e.kind = "Action" THEN Some(e.action)
        ELSE IF e.on_click = None THEN None
        ELSE IF InnerBand(st, p) THEN Some([ e.on_click[1] EXCEPT !.close_on_click = TRUE ])
        ELSE e.on_click

IsScreenshot(cmd) == starts_with(CmdChars[cmd], SCREENSHOT)

DispatchesClosing(p, idx) ==
    /\ ActionOf(p, idx) # None
    /\ ActionOf(p, idx)[1].close_on_click

C10_ClickPost(p, idx, r) ==
    LET a == ActionOf(p, idx)[1]
    IN  /\ ~r.st.visible
        /\ IF IsScreenshot(a.cmd)
           THEN /\ r.out = << >>
                /\ r.pending = Append(pending, a.cmd)
           ELSE /\ r.out = << [ cmd |-> a.cmd, visible |-> FALSE ] >>
                /\ r.pending = pending

\* the handler that dispatches a closing action has hidden the menu by the
\* time the command runs, and only arms a timer for a screenshot
C10_CloseFirst == AllItemClicks(DispatchesClosing, C10_ClickPost)

\* a screenshot command is run by the timer event only
C10_Deferred ==
    \A k \in 1..Len(out) : IsScreenshot(out[k].cmd) => branch = "timer"

\* the timer event runs the command it was armed with, once, and disarms
C10_TimerStep ==
    Len(pending') < Len(pending) =>
        /\ out' = << [ cmd |-> Head(pending), visible |-> st.visible ] >>
        /\ pending' = Tail(pending)
        /\ st' = st

\* C10: whenever an action with close_on_click set is dispatched, the menu is
\* hidden before the command is executed; a screenshot command is not
\* executed by the dispatching handler but by a later one-shot timer event,
\* after the close, exactly once.
C10_CloseThenFire ==
    /\ [](C10_CloseFirst /\ C10_Deferred)
    /\ [][C10_TimerStep]_vars

\* the deferred screenshot has just been taken, the menu still hidden
C10_Witness ==
    /\ branch = "timer"
    /\ out = << [ cmd |-> "screenshot -p false", visible |-> FALSE ] >>
    /\ pending = << >>
    /\ Hidden(st)

----------------------------------------------------------------------------
(* C11 *)

AllMenus ==
    { ROOT_MENU, ACTION_MENU, APP_MENU, FOCUS_MENU, MOVEMENT_MENU, TOOLS_MENU,
      SELECTOR_MENU, BRUSH_MENU, MISC_MENU }

\* the menu entry idx of menu m leads to; << >> when idx is out of range for
\* m or names an Action (no menu of the tree is empty)
Follow(m, idx) ==
    IF idx < Len(m) /\ m[idx + 1].kind = "Submenu" THEN m[idx + 1].items ELSE << >>

\* the menu reached from Root by the first k indices of path, << >> when one
\* of them cannot be followed
RECURSIVE Reached(_, _)
Reached(path, k) ==
    IF k = 0 THEN ROOT_MENU ELSE Follow(Reached(path, k - 1), path[k])

\* the number of leading indices of path that can be followed
ValidLen(path) ==
    CHOOSE k \in 0..Len(path) :
        /\ Reached(path, k) # << >>
        /\ k = Len(path) \/ Reached(path, k + 1) = << >>

WalkReturned == probe.fn = "current_items" /\ probe.ret # None

\* C11: for every path, malformed or not, current_items returns a menu of the
\* tree: the one reached by the indices before the first that is out of range
\* or names an Action (all of them when there is none); the empty path gives
\* Root's entries.
C11_Truncation ==
    WalkReturned =>
        /\ probe.ret[1] \in AllMenus
        /\ probe.ret[1] = Reached(probe.path, ValidLen(probe.path))
        /\ probe.path = << >> => probe.ret[1] = ROOT_MENU

\* a walk that went one level down and stopped at an index out of range, with
\* one more index left unread
C11_Witness ==
    /\ WalkReturned
    /\ Len(probe.path) = 3
    /\ ValidLen(probe.path) = 1
    /\ probe.path[2] >= Len(probe.ret[1])
    /\ probe.ret[1] # ROOT_MENU

----------------------------------------------------------------------------
(* C12 *)

HitReturned == probe.fn = "closest_index_for_pointer" /\ probe.ret[1] = "returned"

InDeadzone == dist2(probe.px, probe.py, probe.cx, probe.cy) < probe.deadzone * probe.deadzone

\* squared distance from the pointer of the call to its point of index i
HitDist(i) == point_dist2(probe.px, probe.py, probe.points[i + 1])

\* C12: for a pointer outside the dead-zone and a layout that is not empty,
\* the index returned is that of a point at minimal squared distance from the
\* pointer, and of the points at exactly that distance it is the lowest.
C12_Nearest ==
    (HitReturned /\ ~InDeadzone /\ probe.points # << >>) =>
        /\ probe.ret[2] # None
        /\ probe.ret[2][1] \in 0..(Len(probe.points) - 1)
        /\ \A j \in 0..(Len(probe.points) - 1) :
               /\ HitDist(probe.ret[2][1]) <= HitDist(j)
               /\ j < probe.ret[2][1] => HitDist(probe.ret[2][1]) < HitDist(j)

\* two points exactly tied for the nearest, neither of them the first of the
\* layout: the lower of the two is returned
C12_Witness ==
    /\ HitReturned /\ ~InDeadzone
    /\ Len(probe.points) = 3
    /\ probe.ret[2] = Some(1)
    /\ HitDist(1) = HitDist(2)
    /\ probe.points[2] # probe.points[3]
    /\ HitDist(0) > HitDist(1)

----------------------------------------------------------------------------
(* C13 *)

\* C13: for a pointer whose squared distance to the center is below
\* deadzone * deadzone, the hit-test returns no selection, whatever the
\* number and the positions of the points.
C13_Deadzone ==
    (HitReturned /\ InDeadzone) => probe.ret[2] = None

\* a pointer off the center and inside the dead-zone, right on the nearest of
\* three points
C13_Witness ==
    /\ HitReturned /\ InDeadzone
    /\ probe.ret[2] = None
    /\ << probe.px, probe.py >> # << probe.cx, probe.cy >>
    /\ Len(probe.points) = 3
    /\ \E i \in 0..2 : HitDist(i) < HitDist((i + 1) % 3)

----------------------------------------------------------------------------
(* C14 *)

\* the pieces of s between its characters in Sep, in order, the empty ones
\* included
Fields(s, Sep) ==
    LET cuts == { 0, Len(s) + 1 } \cup { i \in 1..Len(s) : s[i] \in Sep }
        n == Cardinality(cuts)
        cut(k) == CHOOSE c \in cuts : Cardinality({ d \in cuts : d < c }) = k - 1
    IN  [ k \in 1..(n - 1) |-> SubSeq(s, cut(k) + 1, cut(k + 1) - 1) ]

NotEmpty(w) == w # << >>

\* the words of s: its maximal runs of characters that are not whitespace
WordsOf(s) == SelectSeq(Fields(s, WHITESPACE), NotEmpty)

DispatchReturned == probe.fn = "run_niri_action" /\ probe.ret # None

HasKeyPrefix(a) == Len(a) >= 4 /\ SubSeq(a, 1, 4) = << "k", "e", "y", "-" >>

\* C14: a command beginning with "key-" spawns no niri process; what follows
\* the prefix is handed to the keyboard side word by word, one call of
\* run_ydotool_combo per word, in order, and the only program spawned is
\* ydotool.  Every other command makes no such call and spawns niri once,
\* with msg, action and then the words of the command in their order.
C14_Routing ==
    DispatchReturned =>
        LET a == probe.action
            r == probe.ret[1]
        IN  IF HasKeyPrefix(a)
            THEN /\ r.niri = << >>
                 /\ [ k \in 1..Len(r.combos) |-> r.combos[k].combo ]
                        = WordsOf(SubSeq(a, 5, Len(a)))
                 /\ \A k \in 1..Len(r.combos) :
                        /\ Len(r.combos[k].spawned) <= 1
                        /\ \A i \in 1..Len(r.combos[k].spawned) :
                               r.combos[k].spawned[i].prog = YDOTOOL
            ELSE /\ r.combos = << >>
                 /\ r.niri = << [ prog |-> NIRI,
                                  args |-> << ARG_MSG, ARG_ACTION >> \o WordsOf(a) ] >>

\* a key command of two different chords, each of which spawned ydotool
C14_Witness ==
    /\ DispatchReturned
    /\ HasKeyPrefix(probe.action)
    /\ Len(probe.ret[1].combos) = 2
    /\ probe.ret[1].combos[1].combo # probe.ret[1].combos[2].combo
    /\ probe.ret[1].combos[1].spawned # << >>
    /\ probe.ret[1].combos[2].spawned # << >>
    /\ probe.ret[1].niri = << >>

----------------------------------------------------------------------------
(* C15 *)

ComboReturned == probe.fn = "run_ydotool_combo" /\ probe.ret # None

KnownToken(tok) == tok \in DOMAIN KEY_CODES

Press(tok) == format_key(KEY_CODES[tok], 1)
Release(tok) == format_key(KEY_CODES[tok], 0)

\* C15: a chord m1-...-mk-main whose tokens are all arms of
\* key_token_to_evdev spawns ydotool once with key, press m1, ..., press mk,
\* press main, release main, release mk, ..., release m1; a chord with a
\* token that is not spawns nothing.
C15_ChordOrder ==
    ComboReturned =>
        LET toks == Fields(probe.spec, { "-" })
            k == Len(toks) - 1
        IN  IF \A i \in 1..Len(toks) : KnownToken(toks[i])
            THEN probe.ret[1] =
                   << [ prog |-> YDOTOOL,
                        args |-> << KEY >>
                            \o [ i \in 1..k |-> Press(toks[i]) ]
                            \o << Press(toks[k + 1]), Release(toks[k + 1]) >>
                            \o [ i \in 1..k |-> Release(toks[k + 1 - i]) ] ] >>
            ELSE probe.ret[1] = << >>

\* a chord of two different modifiers and a key, all known: seven arguments
C15_Witness ==
    /\ ComboReturned
    /\ probe.spec = << "c", "t", "r", "l", "-", "s", "h", "i", "f", "t", "-", "z" >>
    /\ Len(probe.ret[1]) = 1
    /\ Len(probe.ret[1][1].args) = 7
    /\ probe.ret[1][1].args[2] = << "2", "9", ":", "1" >>
    /\ probe.ret[1][1].args[7] = << "2", "9", ":", "0" >>

----------------------------------------------------------------------------
(* C16 *)

RingReturned == probe.fn = "ring_layout" /\ probe.ret # None

\* the points of the call and its center, in 1/Scale pixel
RingPoint(i) == probe.ret[1].points[i + 1]
RingCx == Scale * probe.cx
RingCy == Scale * probe.cy
RingR == Scale * probe.dist

Abs(v) == IF v < 0 THEN 0 - v ELSE v

\* at distance dist from the center, to within the 1/Scale pixel the points
\* are kept in
AtRingDistance(i) ==
    Abs(dist2(RingPoint(i).x, RingPoint(i).y, RingCx, RingCy) - RingR * RingR)
        <= 2 * RingR

Chord2(i, j) == dist2(RingPoint(i).x, RingPoint(i).y, RingPoint(j).x, RingPoint(j).y)

\* z of the cross product of the rays to entries i and j: positive when j is
\* clockwise of i on the screen (y grows downwards), by less than half a turn
Cross(i, j) ==
    (RingPoint(i).x - RingCx) * (RingPoint(j).y - RingCy)
        - (RingPoint(i).y - RingCy) * (RingPoint(j).x - RingCx)

\* entry i at angle -pi/2 + i * (2 pi / n), given entry 0 at the top and all
\* entries on the ring: each next entry is clockwise of the one before, all
\* steps are equal, and the ring is gone round once (only the step back to
\* entry 0 comes from the left half to the center column)
EqualClockwiseSteps ==
    LET n == probe.n
        next(i) == (i + 1) % n
    IN  /\ n = 2 => /\ RingPoint(1).x = RingCx
                    /\ RingPoint(1).y = RingCy + RingR
        /\ n >= 3 =>
               /\ \A i \in 0..(n - 1) : Cross(i, next(i)) > 0
               /\ \A i \in 0..(n - 1) :
                      Abs(Chord2(i, next(i)) - Chord2(0, 1)) <= 8 * RingR
               /\ { i \in 0..(n - 1) : RingPoint(i).x < RingCx
                                          /\ RingPoint(next(i)).x >= RingCx }
                      = { n - 1 }

\* what C16 says but for the x of entry 0
RingShape ==
    /\ Len(probe.ret[1].points) = probe.n
    /\ \A i \in 0..(probe.n - 1) : AtRingDistance(i)
    /\ probe.n >= 1 =>
           /\ RingPoint(0).y = RingCy - RingR
           /\ RingPoint(0).y < RingCy
           /\ EqualClockwiseSteps

\* C16 as stated: the layout has n positions (none for n = 0), all at
\* distance dist from the center, entry i at angle -pi/2 + i * (2 pi / n)
\* clockwise, and entry 0 has x == cx.
C16_Original ==
    RingReturned =>
        /\ RingShape
        /\ probe.n >= 1 => RingPoint(0).x = RingCx /\ probe.ret[1].top_x_is_cx

\* C16 amended: as stated, but the x of entry 0 equals cx only to within the
\* rounding of cx + dist * cos(-pi/2): it is cx itself whenever
\* cx >= 1.2 * dist, it is not for cx = 0, and with the ring distance of the
\* program it is cx itself exactly when cx >= 64.
C16_RingLayout ==
    RingReturned =>
        /\ RingShape
        /\ probe.n >= 1 =>
               /\ RingPoint(0).x = RingCx
               /\ 5 * probe.cx >= 6 * probe.dist => probe.ret[1].top_x_is_cx
               /\ probe.cx = 0 => ~probe.ret[1].top_x_is_cx
               /\ probe.dist = ITEM_RING_DISTANCE =>
                      (probe.ret[1].top_x_is_cx <=> probe.cx >= 64)

\* a ring of five entries with the ring distance of the program, centered
\* where the x of entry 0 is not rounded back to cx
C16_Witness ==
    /\ RingReturned
    /\ probe.n = 5
    /\ probe.dist = ITEM_RING_DISTANCE
    /\ probe.cx > 0
    /\ ~probe.ret[1].top_x_is_cx
    /\ RingPoint(0).x = RingCx

----------------------------------------------------------------------------
(* C17 *)

IsDefaultDescent(p, idx) ==
    /\ Entry(st, idx).kind = "Submenu"
    /\ Entry(st, idx).on_click # None
    /\ ~InnerBand(st, p)

C17_Post(p, idx, r) ==
    LET a == Entry(st, idx).on_click[1]
        ran == IF a.close_on_click THEN hide_menu(st) ELSE st
    IN  /\ Dispatched(r) = << a.cmd >>
        /\ \A k \in 1..Len(r.out) : r.out[k].visible = ran.visible
        /\ r.st = [ ran EXCEPT !.path = Append(@, idx), !.cx = p[1], !.cy = p[2] ]
        /\ << r.st.cx, r.st.cy >> # << st.cx, st.cy >>
        /\ ~a.close_on_click => /\ Anchored(r.st)
                                /\ r.st.path = Append(st.path, idx)

\* C17: a click that resolves to a Submenu entry with a default action and
\* lies outside the inner activation band dispatches the default action once
\* with its own close_on_click (the menu stays open when it is false) and
\* also enters the submenu: the index is pushed onto path and center moves,
\* to the click point.
C17_DefaultAndDescend == AllItemClicks(IsDefaultDescent, C17_Post)

\* a submenu of Root was entered by a click that also ran its default
\* action, with the menu open
C17_Witness ==
    /\ branch = "submenu"
    /\ Anchored(st)
    /\ Len(st.path) = 1
    /\ ROOT_MENU[st.path[1] + 1].on_click # None
    /\ Len(out) = 1
    /\ out[1].visible
    /\ out[1].cmd = ROOT_MENU[st.path[1] + 1].on_click[1].cmd

----------------------------------------------------------------------------
(* C18 *)

\* C18 as stated: however many toggles are pending when the pump runs, the
\* visibility is flipped once.
C18_Original == [][ Pumped => st'.visible = ~st.visible ]_vars

\* C18 amended: every pending toggle is acted on, in order: a run of the pump
\* leaves the visibility as it was exactly when the number of pending toggles
\* is even, and two pending toggles give the state before but for anchored
\* and path, which are reset (an open menu is hidden and shown again).
C18_EveryToggle ==
    [][ Pumped =>
            /\ (st'.visible = st.visible) <=> (Len(chan) % 2 = 0)
            /\ Len(chan) = 2 =>
                   st' = [ st EXCEPT !.anchored = FALSE, !.path = << >> ] ]_vars

\* a run of the pump hid the menu for one toggle and showed it again for the
\* next
C18_Witness ==
    /\ branch = "toggle_show_again"
    /\ AwaitingAnchor(st)
    /\ chan = << >>

----------------------------------------------------------------------------
(* C19 *)

CenterOnAnchor(s) == s.cx = s.root_cx /\ s.cy = s.root_cy

\* C19 as stated: in every reachable state at Root, center equals anchor.
C19_Original == AtRoot(st) => CenterOnAnchor(st)

\* right after the anchoring event center is the anchor
C19_AfterAnchoring ==
    (AtRoot(st) /\ branch \in { "click_anchor", "motion_anchor" }) => CenterOnAnchor(st)

\* an ascent to Root puts center on the point of the ascending click and
\* leaves the anchor alone: center is the anchor only if the click is there
C19_AfterAscent ==
    (InSubmenu(st) /\ Len(st.path) = 1) =>
        \A p \in Points :
            OnCenter(st, p) =>
                \A r \in { ClickAt(st, p, 0) } :
                    /\ AtRoot(r.st)
                    /\ r.st.cx = p[1] /\ r.st.cy = p[2]
                    /\ r.st.root_cx = st.root_cx /\ r.st.root_cy = st.root_cy
                    /\ CenterOnAnchor(r.st) <=> p = << st.root_cx, st.root_cy >>

\* a step from Root to Root moves neither center nor anchor
C19_StaysPut ==
    (AtRoot(st) /\ AtRoot(st')) =>
        /\ st'.cx = st.cx /\ st'.cy = st.cy
        /\ st'.root_cx = st.root_cx /\ st'.root_cy = st.root_cy

\* C19 amended: at Root center equals anchor after the anchoring event and
\* for as long as the menu stays at Root; an ascent back to Root does not
\* restore it: center becomes the point of the ascending click, anchor is
\* unchanged, and the two are equal only if that click is at the anchor.
C19_CenterAtRoot ==
    [](C19_AfterAnchoring /\ C19_AfterAscent) /\ [][C19_StaysPut]_vars

\* back at Root after an ascent, the anchor no longer on the center control
C19_Witness ==
    /\ branch = "center_pop"
    /\ AtRoot(st)
    /\ dist2(st.cx, st.cy, st.root_cx, st.root_cy) > CENTER_RADIUS * CENTER_RADIUS

----------------------------------------------------------------------------
(* C20 *)

AnchorMoved == << st'.root_cx, st'.root_cy >> # << st.root_cx, st.root_cy >>

\* C20: no step taken in an anchored state moves the anchor, whatever the
\* handler (motion, click on an entry, descent, ascent, dispatch, timer,
\* toggle); the anchor moves only in the anchoring event itself, the first
\* motion or click of a session, taken while visible and not anchored, and
\* it moves to the point of that event.
C20_AnchorStable ==
    [][ /\ Anchored(st) => ~AnchorMoved
        /\ AnchorMoved =>
               /\ AwaitingAnchor(st)
               /\ branch' \in { "click_anchor", "motion_anchor" }
               /\ AtRoot(st')
               /\ CenterOnAnchor(st') ]_vars

\* two levels down, after two descents and an action that left the menu
\* open, the ring away from the anchor
C20_Witness ==
    /\ branch = "action"
    /\ Anchored(st)
    /\ Len(st.path) = 2
    /\ Len(out) = 1
    /\ ~CenterOnAnchor(st)

----------------------------------------------------------------------------
(* C21 *)

\* p is outside the disc of radius ITEM_RADIUS of every entry of the ring of
\* state s
OutsideRings(s, p) ==
    LET points == ring_layout(Len(current_items(s.path)), s.cx, s.cy,
                              ITEM_RING_DISTANCE, 0)
    IN  \A k \in 1..Len(points) :
            dist2(Scale * p[1], Scale * p[2], points[k].x, points[k].y)
                > (Scale * ITEM_RADIUS) * (Scale * ITEM_RADIUS)

\* C21 as stated: in an anchored state a click outside the center control and
\* outside all entry rings is a no-op: the state is unchanged and nothing is
\* dispatched.
C21_Original ==
    Anchored(st) =>
        \A p \in Points :
            (~OnCenter(st, p) /\ OutsideRings(st, p)) =>
                \A fav \in roundings(st, p[1], p[2]) :
                    \A r \in { ClickAt(st, p, fav) } :
                        /\ r.st = st
                        /\ Dispatched(r) = << >>

\* C21 amended: in an anchored state a click outside the center control,
\* outside all entry rings or not, always resolves to an entry of the current
\* menu and is never a no-op: the handler does not return early, and it
\* dispatches a command or changes the state.
C21_NeverMisses ==
    Anchored(st) =>
        \A p \in Points :
            ~OnCenter(st, p) =>
                \A fav \in roundings(st, p[1], p[2]) :
                    \A r \in { ClickAt(st, p, fav) } :
                        /\ Resolve(st, p, fav) # None
                        /\ Resolve(st, p, fav)[1] < Len(current_items(st.path))
                        /\ r.branch \notin RETURNED
                        /\ r.st # st \/ Dispatched(r) # << >>

\* a descent by a click that was outside every entry ring of the parent menu,
\* wherever that ring was centered
C21_Witness ==
    /\ branch = "submenu"
    /\ InSubmenu(st)
    /\ \A c \in Points :
           OutsideRings([ st EXCEPT !.path = SubSeq(@, 1, Len(@) - 1),
                                   !.cx = c[1], !.cy = c[2] ],
                        << st.cx, st.cy >>)

----------------------------------------------------------------------------
(* C22 *)

\* the commands of the Action entries of menu m that close the menu
ClosingCommands(m) ==
    { m[k].action.cmd :
        k \in { j \in 1..Len(m) : m[j].kind = "Action" /\ m[j].action.close_on_click } }

\* C22: in every reachable state a hidden menu is not anchored and its path
\* is empty; equivalently an anchored menu is visible, and a non-empty path
\* goes with a visible and anchored menu.
C22_Consistent ==
    /\ ~st.visible => (~st.anchored /\ st.path = << >>)
    /\ st.anchored => st.visible
    /\ st.path # << >> => (st.visible /\ st.anchored)

\* the menu was closed two levels down, by an entry of the App menu: hidden,
\* not anchored, the path cleared
C22_Witness ==
    /\ branch = "action"
    /\ Len(out) = 1
    /\ out[1].cmd \in ClosingCommands(APP_MENU)
    /\ ~out[1].visible
    /\ ~st.visible /\ ~st.anchored /\ st.path = << >>

----------------------------------------------------------------------------
(* C23 *)

\* the larger of two numbers
Max(a, b) == IF a >= b THEN a ELSE b

\* the deepest level below menu m, over its entries from the k-th on
RECURSIVE DepthFrom(_, _)
DepthFrom(m, k) ==
    IF k > Len(m) THEN 0
    ELSE Max(IF m[k].kind = "Submenu" THEN 1 + DepthFrom(m[k].items, 1) ELSE 0,
             DepthFrom(m, k + 1))

\* index k of path is in range for the menu its predecessors lead to and
\* names a Submenu entry of it
ValidStep(path, k) ==
    LET m == Reached(path, k - 1)
    IN  /\ path[k] >= 0
        /\ path[k] < Len(m)
        /\ m[path[k] + 1].kind = "Submenu"

\* C23: in every reachable state path is a valid walk of the menu tree: each
\* index is in range for the menu reached by the indices before it and names
\* a Submenu entry, so that current_items follows all of path and does not
\* truncate; the length of path never exceeds the depth of the tree, which
\* is 2 below Root.
C23_ValidPath ==
    /\ \A k \in 1..Len(st.path) : ValidStep(st.path, k)
    /\ ValidLen(st.path) = Len(st.path)
    /\ current_items(st.path) = Reached(st.path, Len(st.path))
    /\ Len(st.path) <= DepthFrom(ROOT_MENU, 1)
    /\ DepthFrom(ROOT_MENU, 1) = 2

\* the Movement menu entered at the full depth of the tree, through the
\* second of the two Workspace entries that share it
C23_Witness ==
    /\ branch = "submenu"
    /\ Anchored(st)
    /\ Len(st.path) = 2
    /\ st.path[2] = 5
    /\ current_items(st.path) = MOVEMENT_MENU

----------------------------------------------------------------------------
(* C24 *)

\* C24: whatever toggle notifications and pointer events come between the
\* arming of the one-shot timer and its firing, the deferred screenshot
\* command is never executed while the overlay is visible.
C24_RaceFree ==
    branch = "timer" =>
        \A k \in 1..Len(out) : IsScreenshot(out[k].cmd) => ~out[k].visible

----------------------------------------------------------------------------
(* C25 *)

\* what the click handler leaves behind after n clicks at p in a row, from
\* state s; before the first click: s itself, no branch
RECURSIVE CenterClicks(_, _, _)
CenterClicks(s, p, n) ==
    IF n = 0 THEN quiet(s, pending, "none")
    ELSE LET before == CenterClicks(s, p, n - 1)
         IN  click_released(before.st, before.pending, p[1], p[2], 0)

\* C25: from an anchored state with path of length d, d + 1 clicks in a row
\* at one point on the center control end in the Hidden state: each of the
\* first d removes the last index of path and leaves the menu anchored with
\* the point still on the center control, the last one hides the menu; none
\* dispatches anything.
C25_Exit ==
    Anchored(st) =>
        \A p \in Points :
            OnCenter(st, p) =>
                LET d == Len(st.path)
                IN  /\ \A j \in 1..d :
                           LET r == CenterClicks(st, p, j)
                           IN  /\ r.branch = "center_pop"
                               /\ Anchored(r.st)
                               /\ r.st.path = SubSeq(st.path, 1, d - j)
                               /\ OnCenter(r.st, p)
                               /\ r.out = << >> /\ r.pending = pending
                    /\ \A r \in { CenterClicks(st, p, d + 1) } :
                           /\ r.branch = "center_hide"
                           /\ Hidden(r.st)
                           /\ r.out = << >> /\ r.pending = pending

\* a click on the center control has ascended to Root and moved the center
\* under itself, away from the anchor: one more click at the same point hides
\* the menu
C25_Witness ==
    /\ branch = "center_pop"
    /\ AtRoot(st)
    /\ ~CenterOnAnchor(st)
    /\ ~OnCenter([ st EXCEPT !.cx = st.root_cx, !.cy = st.root_cy ], << st.cx, st.cy >>)
    /\ Hidden(CenterClicks(st, << st.cx, st.cy >>, 1).st)

====
